---- MODULE Spec2Model ----
(***************************************************************************)
(* A model of scripts/rust_approach.rs: the VCF identifier rewriter.       *)
(*                                                                         *)
(* Text is modelled byte by byte: a string is a sequence of one-character  *)
(* strings, a file is the sequence of its bytes.  The byte BAD stands for  *)
(* a byte that is not valid UTF-8.  The file system maps the paths of the  *)
(* existing files to their contents; a path names one file (no links).     *)
(* BufReader and BufWriter are modelled for files smaller than their       *)
(* buffers (8 KiB): the reader sees the file as it is when a line is       *)
(* asked for, the writer keeps everything until it is flushed or dropped.  *)
(* The build unwinds on panic (the default), so that a dropped BufWriter   *)
(* flushes what it holds.                                                  *)
(***************************************************************************)
EXTENDS Integers, Sequences, FiniteSets, TLC

\* ---------------------------------------------------------------- bounds
MaxLines == 3
MaxTabs == 6
MaxArgs == 4

\* ------------------------------------------------------------ characters
TAB == "\t"
LF == "\n"
CR == "\r"
HASH == "#"
COLON == ":"
BAD == "xFF"

None == << >>
Some(x) == << x >>

\* ------------------------------------------------------- string helpers
\* str::find: the index of the first c in s, 0 when there is none
FirstIndex(s, c) ==
    IF \E i \in 1..Len(s) : s[i] = c
    THEN CHOOSE i \in 1..Len(s) : s[i] = c /\ \A j \in 1..(i - 1) : s[j] # c
    ELSE 0

From(s, i) == SubSeq(s, i, Len(s))

\* str::splitn(n, '\t') collected: at most n parts, the last one unsplit
RECURSIVE splitn(_, _)
splitn(n, s) ==
    LET t == FirstIndex(s, TAB)
    IN  IF n <= 1 \/ t = 0
        THEN << s >>
        ELSE << SubSeq(s, 1, t - 1) >> \o splitn(n - 1, From(s, t + 1))

\* Iterator::next on the collected parts: the k-th call
next(parts, k) == IF k <= Len(parts) THEN Some(parts[k]) ELSE None

\* ----------------------------------------------------- BufRead::lines()
\* read_line: the bytes up to and including the next LF, or up to the end
RawLine(bytes, off) ==
    LET rest == From(bytes, off + 1)
        nl == FirstIndex(rest, LF)
    IN  IF nl = 0 THEN rest ELSE SubSeq(rest, 1, nl)

Utf8Ok(bytes) == \A i \in 1..Len(bytes) : bytes[i] # BAD

\* lines() removes a final LF and then one final CR
StripTerminator(bytes) ==
    LET a == IF Len(bytes) > 0 /\ bytes[Len(bytes)] = LF
             THEN SubSeq(bytes, 1, Len(bytes) - 1) ELSE bytes
    IN  IF a # bytes /\ Len(a) > 0 /\ a[Len(a)] = CR
        THEN SubSeq(a, 1, Len(a) - 1) ELSE a

\* -------------------------------------------------------- line handling
starts_with_hash(l) == Len(l) > 0 /\ l[1] = HASH

\* mutants of splitter: every tab splits; only five parts
splitter_all(l) == splitn(Len(l) + 1, l)
splitter_five(l) == splitn(5, l)
splitter(l) == splitn(6, l)

\* mutant of format_id: the two alleles change places
format_id_swapped(chrom, pos, ref_allele, alt_allele) ==
    chrom \o << COLON >> \o pos \o << COLON >> \o alt_allele
          \o << COLON >> \o ref_allele

format_id(chrom, pos, ref_allele, alt_allele) ==
    chrom \o << COLON >> \o pos \o << COLON >> \o ref_allele
          \o << COLON >> \o alt_allele

format_out_line(chrom, pos, id, ref_allele, alt_allele, remainder) ==
    chrom \o << TAB >> \o pos \o << TAB >> \o id \o << TAB >> \o ref_allele
          \o << TAB >> \o alt_allele \o << TAB >> \o remainder \o << LF >>

\* the five unwraps of a data line: chrom, pos, ref_allele, alt_allele,
\* remainder (the old id is taken without unwrap)
unwraps_ok(l) ==
    LET sp == splitter(l)
    IN  /\ next(sp, 1) # None
        /\ next(sp, 2) # None
        /\ next(sp, 4) # None
        /\ next(sp, 5) # None
        /\ next(sp, 6) # None

\* mutant of out_line: the old id becomes part of the new one
out_line_keeps_id(l) ==
    LET sp == splitter(l)
        chrom == next(sp, 1)[1]
        pos == next(sp, 2)[1]
        old_id == next(sp, 3)[1]
        ref_allele == next(sp, 4)[1]
        alt_allele == next(sp, 5)[1]
        remainder == next(sp, 6)[1]
        id == old_id \o << COLON >>
                 \o format_id(chrom, pos, ref_allele, alt_allele)
    IN  format_out_line(chrom, pos, id, ref_allele, alt_allele, remainder)

out_line(l) ==
    LET sp == splitter(l)
        chrom == next(sp, 1)[1]
        pos == next(sp, 2)[1]
        ref_allele == next(sp, 4)[1]
        alt_allele == next(sp, 5)[1]
        remainder == next(sp, 6)[1]
        id == format_id(chrom, pos, ref_allele, alt_allele)
    IN  format_out_line(chrom, pos, id, ref_allele, alt_allele, remainder)

\* mutant of header_out: a header with enough tabs is rewritten like data
header_out_rewritten(l) == IF unwraps_ok(l) THEN out_line(l) ELSE l \o << LF >>
header_out(l) == l \o << LF >>

\* --------------------------------------------------------------- inputs
Flags == {"-i", "--input", "-o", "--output"}
Tokens == Flags \cup {"p", "q", "r", "d/x"}
Uncreatable == {"d/x"}

RECURSIVE SeqsUpTo(_)
SeqsUpTo(n) ==
    IF n = 0 THEN {<< >>}
    ELSE LET S == SeqsUpTo(n - 1)
         IN  S \cup {Append(s, t) : s \in S, t \in Tokens}

\* args[1] is the program name: the path of the executable, never a flag
ArgVectors == {<< "prog" >> \o s : s \in SeqsUpTo(MaxArgs)}
MainArgs == {<< "prog", "-i", "p", "-o", "q" >>}

RECURSIVE JoinTabs(_)
JoinTabs(fields) ==
    IF Len(fields) = 1 THEN fields[1]
    ELSE fields[1] \o << TAB >> \o JoinTabs(Tail(fields))

FieldName(k) ==
    IF k = 1 THEN "c" ELSE IF k = 2 THEN "p" ELSE IF k = 3 THEN "i"
    ELSE IF k = 4 THEN "r" ELSE IF k = 5 THEN "a" ELSE "x"

FieldVal(k, fill) ==
    IF fill = "empty" \/ (fill = "noid" /\ k = 3) THEN << >>
    ELSE IF k = 1 THEN << "c", "h" >> ELSE << FieldName(k) >>

RichBody(hdr, ntabs, fill, cr) ==
    (IF hdr THEN << HASH >> ELSE << >>)
    \o JoinTabs([k \in 1..(ntabs + 1) |-> FieldVal(k, fill)])
    \o (IF cr THEN << CR >> ELSE << >>)

Terminators == {<< LF >>, << CR, LF >>, << >>}

RichInputs ==
    {RichBody(hdr, n, fill, cr) \o t :
        hdr \in BOOLEAN, n \in 0..MaxTabs, fill \in {"std", "noid", "empty"},
        cr \in BOOLEAN, t \in Terminators}

GoodData == << "1", TAB, "5", TAB, ".", TAB, "A", TAB, "G", TAB, "f" >>
SmallBodies ==
    { << HASH, "h", TAB, "k" >>,
      GoodData,
      GoodData \o << TAB, "g", CR >>,
      << "1", TAB, "5", TAB, ".", TAB, "A", TAB, "G" >>,
      << >>,
      << HASH, BAD >>,
      << "1", TAB, BAD >> }

RECURSIVE Terminated(_)
Terminated(n) ==
    IF n = 0 THEN {<< >>}
    ELSE LET S == Terminated(n - 1)
         IN  S \cup {f \o b \o << LF >> : f \in S, b \in SmallBodies}

MultiInputs ==
    Terminated(MaxLines)
    \cup {f \o b : f \in Terminated(MaxLines - 1), b \in SmallBodies \ {<< >>}}

Inputs == RichInputs \cup MultiInputs
SmallInputs == {<< HASH, "h", LF >> \o GoodData \o << LF >>}
Stale == << "s", LF >>

\* ---------------------------------------------------------------- state
VARIABLES
    args,      \* env::args(): the program name and the arguments
    fs,        \* the file system: path -> bytes, for the existing files
    pc,        \* the position in main, or how the process ended
    vcf_in,    \* Option<String>
    vcf_out,   \* Option<String>
    reader,    \* the number of bytes the reader has consumed
    writer,    \* the bytes the BufWriter holds
    run,       \* 1: the first run, 2: the run on the first run's output
    fs0        \* the file system when the process started

vars == << args, fs, pc, vcf_in, vcf_out, reader, writer, run, fs0 >>

InPath == vcf_in[1]
OutPath == vcf_out[1]

\* ------------------------------------------------------ argument parsing
\* args.iter().position(|a| a == arg): 0-based index of the first equal one
position(arg) == (CHOOSE i \in 1..Len(args) :
                     args[i] = arg /\ \A j \in 1..(i - 1) : args[j] # arg) - 1

\* mutant of get: off by one, the flag itself is taken as its value
get_off_by_one(index) == IF index <= Len(args) THEN Some(args[index]) ELSE None

\* args.get(index), 0-based
get(index) == IF index + 1 <= Len(args) THEN Some(args[index + 1]) ELSE None

\* the for loop over args.iter().skip(1), from the k-th element (1-based)
RECURSIVE ScanArgs(_, _, _)
ScanArgs(k, vin, vout) ==
    IF k > Len(args) THEN << vin, vout >>
    ELSE LET arg == args[k]
             file == get(position(arg) + 1)
         IN  IF arg \in {"-i", "--input"}
             THEN ScanArgs(k + 1, IF file # None THEN file ELSE vin, vout)
             ELSE IF arg \in {"-o", "--output"}
             THEN ScanArgs(k + 1, vin, IF file # None THEN file ELSE vout)
             ELSE ScanArgs(k + 1, vin, vout)

\* -------------------------------------------------------------- actions
Init ==
    /\ args \in ArgVectors
    /\ \E content \in (IF args \in MainArgs THEN Inputs ELSE SmallInputs) :
          fs = ("p" :> content) @@ ("q" :> Stale)
    /\ fs0 = fs
    /\ pc = "parse"
    /\ vcf_in = None
    /\ vcf_out = None
    /\ reader = 0
    /\ writer = << >>
    /\ run = 1

ParseArgs ==
    /\ pc = "parse"
    /\ vcf_in' = ScanArgs(2, None, None)[1]
    /\ vcf_out' = ScanArgs(2, None, None)[2]
    /\ pc' = "expect_in"
    /\ UNCHANGED << args, fs, reader, writer, run, fs0 >>

ExpectIn ==
    /\ pc = "expect_in"
    /\ pc' = IF vcf_in = None THEN "arg_panic" ELSE "expect_out"
    /\ UNCHANGED << args, fs, vcf_in, vcf_out, reader, writer, run, fs0 >>

ExpectOut ==
    /\ pc = "expect_out"
    /\ pc' = IF vcf_out = None THEN "arg_panic" ELSE "open"
    /\ UNCHANGED << args, fs, vcf_in, vcf_out, reader, writer, run, fs0 >>

\* mutant of OpenInput: the output file is created before the input is opened
OpenInput_create_first ==
    /\ pc = "open"
    /\ pc' = IF InPath \in DOMAIN fs THEN "create" ELSE "open_err"
    /\ fs' = IF OutPath \in Uncreatable THEN fs ELSE (OutPath :> << >>) @@ fs
    /\ UNCHANGED << args, vcf_in, vcf_out, reader, writer, run, fs0 >>

OpenInput ==
    /\ pc = "open"
    /\ pc' = IF InPath \in DOMAIN fs THEN "create" ELSE "open_err"
    /\ UNCHANGED << args, fs, vcf_in, vcf_out, reader, writer, run, fs0 >>

CreateOutput ==
    /\ pc = "create"
    /\ IF OutPath \in Uncreatable
       THEN pc' = "create_err" /\ fs' = fs
       ELSE pc' = "loop" /\ fs' = (OutPath :> << >>) @@ fs
    /\ UNCHANGED << args, vcf_in, vcf_out, reader, writer, run, fs0 >>

\* the writer goes out of scope: what it holds reaches the file
Dropped == [fs EXCEPT ![OutPath] = @ \o writer]

AtEnd == reader >= Len(fs[InPath])
raw == RawLine(fs[InPath], reader)
line == StripTerminator(raw)

LoopEnd ==
    /\ pc = "loop"
    /\ AtEnd
    /\ pc' = "flush"
    /\ UNCHANGED << args, fs, vcf_in, vcf_out, reader, writer, run, fs0 >>

LoopReadErr ==
    /\ pc = "loop"
    /\ ~AtEnd
    /\ ~Utf8Ok(raw)
    /\ reader' = reader + Len(raw)
    /\ fs' = Dropped
    /\ writer' = << >>
    /\ pc' = "read_err"
    /\ UNCHANGED << args, vcf_in, vcf_out, run, fs0 >>

LoopHeader ==
    /\ pc = "loop"
    /\ ~AtEnd
    /\ Utf8Ok(raw)
    /\ starts_with_hash(line)
    /\ reader' = reader + Len(raw)
    /\ writer' = writer \o header_out(line)
    /\ UNCHANGED << args, fs, pc, vcf_in, vcf_out, run, fs0 >>

LoopData ==
    /\ pc = "loop"
    /\ ~AtEnd
    /\ Utf8Ok(raw)
    /\ ~starts_with_hash(line)
    /\ unwraps_ok(line)
    /\ reader' = reader + Len(raw)
    /\ writer' = writer \o out_line(line)
    /\ UNCHANGED << args, fs, pc, vcf_in, vcf_out, run, fs0 >>

\* mutant of LoopPanic: the malformed line is skipped and the run goes on
LoopPanic_skip ==
    /\ pc = "loop"
    /\ ~AtEnd
    /\ Utf8Ok(raw)
    /\ ~starts_with_hash(line)
    /\ ~unwraps_ok(line)
    /\ reader' = reader + Len(raw)
    /\ UNCHANGED << args, fs, pc, vcf_in, vcf_out, writer, run, fs0 >>

LoopPanic ==
    /\ pc = "loop"
    /\ ~AtEnd
    /\ Utf8Ok(raw)
    /\ ~starts_with_hash(line)
    /\ ~unwraps_ok(line)
    /\ reader' = reader + Len(raw)
    /\ fs' = Dropped
    /\ writer' = << >>
    /\ pc' = "fmt_panic"
    /\ UNCHANGED << args, vcf_in, vcf_out, run, fs0 >>

Flush ==
    /\ pc = "flush"
    /\ fs' = Dropped
    /\ writer' = << >>
    /\ pc' = "exit0"
    /\ UNCHANGED << args, vcf_in, vcf_out, reader, run, fs0 >>

\* the tool is started again, on the output of a run that succeeded
Rerun ==
    /\ pc = "exit0"
    /\ run = 1
    /\ OutPath \notin Flags
    /\ args' = << "prog", "-i", OutPath, "-o", "out2" >>
    /\ fs0' = fs
    /\ pc' = "parse"
    /\ vcf_in' = None
    /\ vcf_out' = None
    /\ reader' = 0
    /\ writer' = << >>
    /\ run' = 2
    /\ UNCHANGED fs

Next ==
    \/ ParseArgs
    \/ ExpectIn
    \/ ExpectOut
    \/ OpenInput
    \/ CreateOutput
    \/ LoopEnd
    \/ LoopReadErr
    \/ LoopHeader
    \/ LoopData
    \/ LoopPanic
    \/ Flush
    \/ Rerun

Spec == Init /\ [][Next]_vars

\* ------------------------------------------- what the properties speak of
\* the file given to `bytes`, cut into its lines, each with its terminator
RECURSIVE LinesOf(_)
LinesOf(bytes) ==
    IF bytes = << >> THEN << >>
    ELSE LET r == RawLine(bytes, 0)
         IN  << r >> \o LinesOf(From(bytes, Len(r) + 1))

\* every tab splits
RECURSIVE Fields(_)
Fields(s) ==
    IF \E i \in 1..Len(s) : s[i] = TAB
    THEN LET t == CHOOSE i \in 1..Len(s) :
                     s[i] = TAB /\ \A j \in 1..(i - 1) : s[j] # TAB
         IN  << SubSeq(s, 1, t - 1) >> \o Fields(From(s, t + 1))
    ELSE << s >>

TabCount(s) == Cardinality({i \in 1..Len(s) : s[i] = TAB})
IsHeader(l) == l # << >> /\ Head(l) = HASH
ChopLF(r) == IF r # << >> /\ r[Len(r)] = LF THEN SubSeq(r, 1, Len(r) - 1) ELSE r
HasCRLF(bytes) == \E i \in 1..(Len(bytes) - 1) : bytes[i] = CR /\ bytes[i + 1] = LF

Created == pc \in {"loop", "flush", "exit0", "read_err", "fmt_panic"}
Failed == pc \in {"arg_panic", "open_err", "create_err", "read_err", "fmt_panic"}

\* the input lines the loop has taken so far, without their terminators
Consumed ==
    LET rs == LinesOf(SubSeq(fs[InPath], 1, reader))
    IN  [i \in 1..Len(rs) |-> StripTerminator(rs[i])]
ConsumedRaw == LinesOf(SubSeq(fs[InPath], 1, reader))

\* the bytes handed to the writer so far, and their lines
Handed == fs[OutPath] \o writer
OutRaw == LinesOf(Handed)
OutLines == [i \in 1..Len(OutRaw) |-> ChopLF(OutRaw[i])]

\* a data line with another old identifier
WithId(l, v) == JoinTabs([Fields(l) EXCEPT ![3] = v])

\* what the i-th line of a file becomes
Expected(l) == IF IsHeader(l) THEN l \o << LF >> ELSE out_line(l)
Processable(r) ==
    Utf8Ok(r) /\ (IsHeader(StripTerminator(r)) \/ TabCount(StripTerminator(r)) >= 5)

\* the output of the first k lines of rs
RECURSIVE ExpectedPrefix(_, _)
ExpectedPrefix(rs, k) ==
    IF k = 0 THEN << >>
    ELSE ExpectedPrefix(rs, k - 1) \o Expected(StripTerminator(rs[k]))

\* the number of lines before the first one that stops the run
RECURSIVE GoodPrefixLen(_)
GoodPrefixLen(rs) ==
    IF rs = << >> \/ ~Processable(rs[1]) THEN 0
    ELSE 1 + GoodPrefixLen(Tail(rs))

\* ---------------------------------------------------------------- claims

\* C1: for every data line for which output was produced, the third
\* tab-delimited field of the output line is chrom:pos:ref:alt of the input
\* line (its fields 1, 2, 4, 5), and the output is the one the line would
\* give with any other old identifier.
C1_IdentifierCorrect ==
    Created =>
        /\ Len(OutLines) <= Len(Consumed)
        /\ \A i \in 1..Len(OutLines) :
              LET l == Consumed[i]
                  f == Fields(l)
                  o == Fields(OutLines[i])
              IN  ~IsHeader(l) =>
                    /\ Len(f) >= 5
                    /\ Len(o) >= 3
                    /\ o[3] = f[1] \o << COLON >> \o f[2] \o << COLON >> \o f[4]
                                   \o << COLON >> \o f[5]
                    /\ OutRaw[i] = out_line(WithId(l, << "Z", "Z" >>))
                    /\ OutRaw[i] = out_line(WithId(l, << >>))

C1_Witness ==
    /\ pc = "exit0"
    /\ run = 1
    /\ Len(OutLines) = 1
    /\ ~IsHeader(Consumed[1])
    /\ Fields(Consumed[1])[3] = << "i" >>
    /\ Fields(OutLines[1])[3] = << "c", "h", COLON, "p", COLON, "r", COLON, "a" >>

\* C2: for every input line read that begins with '#', a line is written,
\* and it is the input line itself followed by one LF, however many tabs it
\* holds.
C2_HeaderPassthrough ==
    Created =>
        \A i \in 1..Len(Consumed) :
            (IsHeader(Consumed[i]) /\ Utf8Ok(ConsumedRaw[i])) =>
                /\ Len(OutRaw) >= i
                /\ OutRaw[i] = Consumed[i] \o << LF >>

C2_Witness ==
    /\ pc = "exit0"
    /\ run = 1
    /\ Len(OutLines) = 1
    /\ IsHeader(Consumed[1])
    /\ TabCount(Consumed[1]) >= 5
    /\ OutLines[1] = Consumed[1]

\* C3: an output data line differs from its input line in the third field
\* only: same number of tab-delimited fields, every other field equal, the
\* text after the fifth tab copied as it is.
C3_OnlyThirdFieldChanges ==
    Created =>
        /\ Len(OutLines) <= Len(Consumed)
        /\ \A i \in 1..Len(OutLines) :
              LET l == Consumed[i]
                  f == Fields(l)
                  o == Fields(OutLines[i])
              IN  ~IsHeader(l) =>
                    /\ Len(o) = Len(f)
                    /\ \A j \in (1..Len(f)) \ {3} : o[j] = f[j]
                    /\ Len(f) >= 6
                    /\ JoinTabs(SubSeq(o, 6, Len(o))) = JoinTabs(SubSeq(f, 6, Len(f)))

C3_Witness ==
    /\ pc = "exit0"
    /\ run = 1
    /\ Len(OutLines) = 1
    /\ ~IsHeader(Consumed[1])
    /\ Len(Fields(Consumed[1])) >= 7
    /\ Fields(OutLines[1])[3] # Fields(Consumed[1])[3]

\* C4: a run that ends successfully leaves an output with as many lines as
\* the input file had when the run began, the i-th output line being what
\* the i-th input line becomes.
C4_OneToOne ==
    (pc = "exit0" /\ InPath \in DOMAIN fs0) =>
        LET ins == LinesOf(fs0[InPath])
            outs == LinesOf(fs[OutPath])
        IN  /\ Len(outs) = Len(ins)
            /\ \A i \in 1..Len(ins) :
                  Processable(ins[i]) /\ outs[i] = Expected(StripTerminator(ins[i]))

\* C5 as stated: the run on the output of a successful run succeeds and
\* gives the same bytes.
C5_Idempotent ==
    run = 2 => /\ ~Failed
               /\ pc = "exit0" => fs[OutPath] = fs[InPath]

\* C5 as amended: the run on the output of a successful run succeeds, and
\* gives the same bytes when that output holds no CR right before an LF.
C5_IdempotentWithoutCRLF ==
    run = 2 => /\ ~Failed
               /\ (pc = "exit0" /\ ~HasCRLF(fs[InPath])) => fs[OutPath] = fs[InPath]

C5_Witness ==
    /\ run = 2
    /\ pc = "exit0"
    /\ ~HasCRLF(fs[InPath])
    /\ fs[InPath] # fs["p"]
    /\ \E i \in 1..Len(fs[OutPath]) : fs[OutPath][i] = COLON
    /\ fs[OutPath] = fs[InPath]

\* C6: a data line with fewer than five tab-delimited fields stops the run
\* with a fatal error when it is read: no line is written for it, and it
\* stays the last line taken from the input.
C6_ShortLineIsFatal ==
    Created =>
        \A i \in 1..Len(Consumed) :
            (~IsHeader(Consumed[i]) /\ Len(Fields(Consumed[i])) < 5) =>
                /\ pc = IF Utf8Ok(ConsumedRaw[i]) THEN "fmt_panic" ELSE "read_err"
                /\ i = Len(Consumed)
                /\ Len(OutRaw) = i - 1
                /\ writer = << >>

C6_Witness ==
    /\ pc = "fmt_panic"
    /\ Len(Consumed) = 2
    /\ Len(Fields(Consumed[2])) < 5
    /\ Len(OutRaw) = 1
    /\ reader < Len(fs[InPath])

\* C7: when no input flag, or no output flag, is followed by another
\* argument, the process panics before it opens or creates a file, and the
\* file system stays as it was.
NoValue(flags) == \A i \in 2..Len(args) : args[i] \in flags => i = Len(args)
C7_MissingArgumentIsFatal ==
    (run = 1 /\ (NoValue({"-i", "--input"}) \/ NoValue({"-o", "--output"}))) =>
        /\ pc \in {"parse", "expect_in", "expect_out", "arg_panic"}
        /\ fs = fs0

C7_Witness ==
    /\ pc = "arg_panic"
    /\ Len(args) = 4
    /\ args[4] \in {"-i", "--input"}
    /\ vcf_out # None
    /\ fs = fs0

\* C8: a run changes no file but the one at the output path, and leaves the
\* file at the input path as it was.
C8_InputUntouched ==
    /\ vcf_in # None /\ InPath \in DOMAIN fs0 => fs[InPath] = fs0[InPath]
    /\ \A path \in DOMAIN fs :
          (vcf_out = None \/ path # OutPath) =>
              path \in DOMAIN fs0 /\ fs[path] = fs0[path]

\* C9: a data line that is read is rewritten and written if it holds five
\* tabs or more, and stops the run, unwritten, if it holds four or fewer.
C9_FiveTabsOrAbort ==
    Created =>
        \A i \in 1..Len(Consumed) :
            (~IsHeader(Consumed[i]) /\ Utf8Ok(ConsumedRaw[i])) =>
                IF TabCount(Consumed[i]) >= 5
                THEN /\ Len(OutRaw) >= i
                     /\ OutRaw[i] = out_line(Consumed[i])
                     /\ i = Len(Consumed) => pc \in {"loop", "flush", "exit0"}
                ELSE /\ pc = "fmt_panic"
                     /\ i = Len(Consumed)
                     /\ Len(OutRaw) = i - 1

C9_Witness ==
    /\ pc = "fmt_panic"
    /\ Len(Consumed) = 1
    /\ Fields(Consumed[1]) = << << "c", "h" >>, << "p" >>, << "i" >>, << "r" >>, << "a" >> >>
    /\ fs[OutPath] = << >>

\* C10: what has been handed to the output is always the output of the
\* first k input lines, in order, k being the number of lines read so far
\* without the one that stopped the run; and until the input is open no
\* file is created.
C10_OutputIsPrefix ==
    /\ ~Created => (fs = fs0 \/ pc = "create_err")
    /\ pc \in {"open_err", "create_err"} => fs = fs0
    /\ (Created /\ InPath \in DOMAIN fs0) =>
          LET ins == LinesOf(fs0[InPath])
              k == IF pc \in {"read_err", "fmt_panic"}
                   THEN Len(Consumed) - 1 ELSE Len(Consumed)
          IN  /\ k <= GoodPrefixLen(ins)
              /\ Handed = ExpectedPrefix(ins, k)
              /\ pc \in {"read_err", "fmt_panic"} =>
                    /\ k = GoodPrefixLen(ins)
                    /\ fs[OutPath] = ExpectedPrefix(ins, k)

C10_Witness ==
    /\ pc = "fmt_panic"
    /\ Len(Consumed) = 3
    /\ fs[OutPath] = ExpectedPrefix(LinesOf(fs0[InPath]), 2)
    /\ Len(LinesOf(fs[OutPath])) = 2
    /\ IsHeader(Consumed[1])
    /\ ~IsHeader(Consumed[2])

C10_WitnessOpenFails ==
    pc = "open_err" /\ vcf_out # None /\ OutPath \notin DOMAIN fs

====
